---- MODULE Spec2Model ----
(***************************************************************************)
(* Model of boltdbutils: a composite index stored as a tree of nested      *)
(* bolt buckets (Put / Get / Del, index.go, kept in src/index_test.go) and *)
(* the multi-level Cursor over it (src/cursor.go).                         *)
(*                                                                         *)
(* Encoding.  A key is a one-byte string, written as the integer 1..MaxKey;*)
(* bytes.Compare is then integer comparison.  NoKey is the nil slice.      *)
(* Bucket names are integers: the outer buckets are 1..MaxDepth (bucket n  *)
(* holds an index of depth n, as test_bucket1..3 do in TestIndex) and the  *)
(* handles made by rand.Uuid are integers above 1000.      Payloads are    *)
(* integers that are neither keys nor bucket names.                        *)
(*                                                                         *)
(* The bolt store is modelled by its contract: a transaction sees a map    *)
(* from bucket names to ordered key/value maps; Bucket.Stats().KeyN counts *)
(* the keys of the bucket's pages, i.e. as of the start of the transaction *)
(* (0 for a bucket created inside it); a bolt cursor is a value (bucket,   *)
(* stack length, index into the bucket's sorted keys).                     *)
(***************************************************************************)
EXTENDS Integers, Sequences, FiniteSets, TLC

\* ---------------------------------------------------------------- bounds
MaxKey == 2
MaxDepth == 3
MaxEntries == 2
MaxGen == 0
MaxBuckets == 3

Keys == 1..MaxKey
OuterBuckets == 1..MaxDepth
Depths == 1..MaxDepth
Payloads == {51, 52}

NoKey == 0 - 1
NoVal == 0 - 1
NoBucket == 0 - 1

\* db: the store; cur: the cursor; last: the record of the last call; hist:
\* the records an iteration returned; fault: a call ended in a run-time panic;
\* twin: a second cursor run beside cur; pc: the calls in progress, per thread
VARIABLES db, last, cur, hist, fault, twin, pc
vars == <<db, last, cur, hist, fault, twin, pc>>

\* ------------------------------------------------------------ the store
\* db.bk : bucket name -> (key -> value), the buckets the transaction sees
\* db.kn : bucket name -> KeyN of the bucket's pages
\* db.ix : the outer bucket (index) this run works on
EmptyMap == [k \in {} |-> 0]

EmptyDb(ix) == [bk |-> [b \in {} |-> EmptyMap], kn |-> [b \in {} |-> 0], ix |-> ix]

TxBucket(st, name) == IF name \in DOMAIN st.bk THEN name ELSE NoBucket

BucketGet(st, b, key) == IF key \in DOMAIN st.bk[b] THEN st.bk[b][key] ELSE NoVal

BucketPut(st, b, key, val) ==
  [st EXCEPT !.bk = [n \in DOMAIN st.bk |->
      IF n = b THEN [k \in DOMAIN st.bk[b] \cup {key} |->
                        IF k = key THEN val ELSE st.bk[b][k]]
      ELSE st.bk[n]]]

BucketDelete(st, b, key) ==
  [st EXCEPT !.bk = [n \in DOMAIN st.bk |->
      IF n = b THEN [k \in DOMAIN st.bk[b] \ {key} |-> st.bk[b][k]]
      ELSE st.bk[n]]]

CreateBucket(st, name) ==
  [st EXCEPT !.bk = [n \in DOMAIN st.bk \cup {name} |->
                        IF n = name THEN EmptyMap ELSE st.bk[n]],
             !.kn = [n \in DOMAIN st.kn \cup {name} |->
                        IF n = name THEN 0 ELSE st.kn[n]]]

CreateBucketIfNotExists(st, name) ==
  IF name \in DOMAIN st.bk THEN st ELSE CreateBucket(st, name)

DeleteBucket(st, name) ==
  [st EXCEPT !.bk = [n \in DOMAIN st.bk \ {name} |-> st.bk[n]],
             !.kn = [n \in DOMAIN st.kn \ {name} |-> st.kn[n]]]

StatsKeyN(st, b) == st.kn[b]

TxCommitDb(st) ==
  [st EXCEPT !.kn = [n \in DOMAIN st.bk |-> Cardinality(DOMAIN st.bk[n])]]

\* rand.Uuid: an identifier that names no bucket and is stored nowhere
UsedHandles(st) ==
  DOMAIN st.bk \cup UNION {{st.bk[b][k] : k \in DOMAIN st.bk[b]} : b \in DOMAIN st.bk}

\* Which identifier it is does not matter: the model takes the first unused
\* one of a series that belongs to the prefix the handle is made for.
RECURSIVE PrefixCode(_)
PrefixCode(prefix) ==
  IF Len(prefix) = 0 THEN 0
  ELSE 10 * PrefixCode(SubSeq(prefix, 1, Len(prefix) - 1)) + prefix[Len(prefix)]

HandleOf(prefix, g) == 1000 * (g + 1) + PrefixCode(prefix)

FreeGens(st, prefix) == {g \in 0..MaxGen : HandleOf(prefix, g) \notin UsedHandles(st)}

RandUuid(st, prefix) ==
  HandleOf(prefix, CHOOSE g \in FreeGens(st, prefix) :
                      \A g2 \in FreeGens(st, prefix) : g <= g2)

\* the element of a one-element set: Only({e : x \in {a}}) is e for x = a,
\* with a evaluated once
Only(S) == CHOOSE x \in S : TRUE

\* ---------------------------------------------------------------- Put
\* results: [st, err, panic]
MutRes(st, err, panic) == [st |-> st, err |-> err, panic |-> panic]

\* mutant of PutWalk: a payload already stored under the key is kept
RECURSIVE PutWalkKeep(_, _, _, _, _)
PutWalkKeep(st, b, keys, data, i) ==
  IF i < Len(keys) - 1
  THEN LET got == BucketGet(st, b, keys[i + 1])
           buf == IF got = NoVal THEN RandUuid(st, SubSeq(keys, 1, i + 1)) ELSE got
           st1 == IF got = NoVal THEN BucketPut(st, b, keys[i + 1], buf) ELSE st
           st2 == IF buf \in DOMAIN st1.bk THEN st1 ELSE CreateBucket(st1, buf)
       IN PutWalkKeep(st2, buf, keys, data, i + 1)
  ELSE IF BucketGet(st, b, keys[Len(keys)]) # NoVal THEN MutRes(st, "none", FALSE)
       ELSE MutRes(BucketPut(st, b, keys[Len(keys)], data), "none", FALSE)

RECURSIVE PutWalk(_, _, _, _, _)
PutWalk(st, b, keys, data, i) ==
  IF i < Len(keys) - 1
  THEN LET got == BucketGet(st, b, keys[i + 1])
           buf == IF got = NoVal THEN RandUuid(st, SubSeq(keys, 1, i + 1)) ELSE got
           st1 == IF got = NoVal THEN BucketPut(st, b, keys[i + 1], buf) ELSE st
           st2 == IF buf \in DOMAIN st1.bk THEN st1 ELSE CreateBucket(st1, buf)
       IN PutWalk(st2, buf, keys, data, i + 1)
  ELSE MutRes(BucketPut(st, b, keys[Len(keys)], data), "none", FALSE)

Put(st, bucket, keys, data) ==
  LET st1 == CreateBucketIfNotExists(st, bucket)
  IN IF Len(keys) = 0 THEN MutRes(st1, "no keys", FALSE)
     ELSE PutWalk(st1, bucket, keys, data, 0)

\* ---------------------------------------------------------------- Get
\* results: [val, err, panic]
GetRes(val, err, panic) == [val |-> val, err |-> err, panic |-> panic]

RECURSIVE GetWalk(_, _, _, _)
GetWalk(st, b, keys, i) ==
  IF b = NoBucket THEN GetRes(NoVal, "none", TRUE)
  ELSE LET buf == BucketGet(st, b, keys[i + 1])
       IN IF buf = NoVal THEN GetRes(NoVal, "key not found", FALSE)
          ELSE IF i < Len(keys) - 1
               THEN GetWalk(st, TxBucket(st, buf), keys, i + 1)
               ELSE GetRes(buf, "none", FALSE)

Get(st, bucket, keys) ==
  IF Len(keys) = 0 THEN GetRes(NoVal, "no keys", FALSE)
  ELSE GetWalk(st, TxBucket(st, bucket), keys, 0)

\* ---------------------------------------------------------------- Del
\* bs[i] / bname[i] of the walk, as a sequence of bucket names (NoBucket = nil)
RECURSIVE DelPath(_, _, _, _, _)
DelPath(st, b, keys, i, acc) ==
  IF i >= Len(keys) THEN [bs |-> acc, panic |-> FALSE]
  ELSE IF b = NoBucket THEN [bs |-> acc, panic |-> TRUE]
  ELSE LET v == BucketGet(st, b, keys[i + 1])
           nb == IF v = NoVal THEN NoBucket ELSE TxBucket(st, v)
       IN DelPath(st, nb, keys, i + 1,
                  IF i + 1 < Len(keys) THEN Append(acc, nb) ELSE acc)

RECURSIVE DelPrune(_, _, _, _)
DelPrune(st, bs, keys, level) ==
  IF level < 0 THEN MutRes(st, "none", FALSE)
  ELSE IF bs[level + 1] = NoBucket THEN MutRes(st, "none", TRUE)
  ELSE LET st1 == BucketDelete(st, bs[level + 1], keys[level + 1])
       IN IF StatsKeyN(st1, bs[level + 1]) <= 1
          THEN IF level - 1 < 0 THEN MutRes(st1, "none", FALSE)
               ELSE DelPrune(DeleteBucket(st1, bs[level + 1]), bs, keys, level - 1)
          ELSE MutRes(st1, "none", FALSE)

\* mutant of Del: an empty key vector is nothing to delete, and no error
DelQuiet(st, bucket, keys) ==
  IF Len(keys) = 0 THEN MutRes(st, "none", FALSE)
  ELSE LET b0 == TxBucket(st, bucket)
           p == DelPath(st, b0, keys, 0, <<b0>>)
       IN IF p.panic THEN MutRes(st, "none", TRUE)
          ELSE DelPrune(st, p.bs, keys, Len(keys) - 1)

Del(st, bucket, keys) ==
  IF Len(keys) = 0 THEN MutRes(st, "no keys", FALSE)
  ELSE LET b0 == TxBucket(st, bucket)
           p == DelPath(st, b0, keys, 0, <<b0>>)
       IN IF p.panic THEN MutRes(st, "none", TRUE)
          ELSE DelPrune(st, p.bs, keys, Len(keys) - 1)

\* ------------------------------------------------- the mutator's actions
\* composite keys of an index of depth n
RECURSIVE KeyTuples(_)
KeyTuples(n) ==
  IF n = 0 THEN {<<>>}
  ELSE {Append(t, k) : t \in KeyTuples(n - 1), k \in Keys}

DepthOf(bucket) == bucket

\* the composite keys of the index that Get finds
Entries(st, bucket) ==
  {t \in KeyTuples(DepthOf(bucket)) :
      LET g == Get(st, bucket, t) IN ~g.panic /\ g.err = "none"}

AllEntries(st) ==
  UNION {{<<b, t>> : t \in Entries(st, b)} : b \in OuterBuckets \cap DOMAIN st.bk}

PayloadOf(st, bucket, t) == Get(st, bucket, t).val

\* the interior prefix is present: Put takes its handle and makes no new one
HasPrefix(st, bucket, prefix) ==
  LET g == Get(st, bucket, prefix) IN ~g.panic /\ g.err = "none"

NoCursor == [state |-> "none"]

NoHist == <<>>

NoCalls == <<>>

\* the record of the last call: old is what Get returned for the key before it
MutLast(op, bucket, keys, data, r) ==
  [op |-> op, bucket |-> bucket, keys |-> keys, data |-> data, err |-> r.err,
   old |-> IF HasPrefix(db, bucket, keys) THEN Get(db, bucket, keys).val ELSE NoVal]

\* rand.Uuid has an identifier left for every handle the Put has to make
CanPut(st, bucket, keys) ==
  \A i \in 1..(Len(keys) - 1) :
     HasPrefix(st, bucket, SubSeq(keys, 1, i)) \/ FreeGens(st, SubSeq(keys, 1, i)) # {}

MutPut(bucket, keys, data) ==
  /\ ~fault
  /\ CanPut(db, bucket, keys)
  /\ \E r \in {Put(db, bucket, keys, data)} :
        /\ Cardinality(AllEntries(r.st)) <= MaxEntries
        /\ Cardinality(DOMAIN r.st.bk) <= MaxBuckets
        /\ db' = r.st
        /\ last' = MutLast("Put", bucket, keys, data, r)
        /\ fault' = r.panic
  /\ UNCHANGED <<cur, hist, twin, pc>>

MutDel(bucket, keys) ==
  /\ ~fault
  /\ \E r \in {Del(db, bucket, keys)} :
        /\ db' = r.st
        /\ last' = MutLast("Del", bucket, keys, NoVal, r)
        /\ fault' = r.panic
  /\ UNCHANGED <<cur, hist, twin, pc>>

\* db.Update returns nil: the write transaction commits
TxCommit ==
  /\ ~fault
  /\ last.op \in {"Put", "Del"}
  /\ db' = TxCommitDb(db)
  /\ last' = [op |-> "Commit"]
  /\ UNCHANGED <<cur, hist, fault, twin, pc>>

MutKeys(bucket) == KeyTuples(DepthOf(bucket)) \cup {<<>>}

InitMut ==
  /\ \E ix \in OuterBuckets : db = EmptyDb(ix)
  /\ last = [op |-> "none"]
  /\ cur = NoCursor
  /\ hist = NoHist
  /\ fault = FALSE
  /\ twin = NoCursor
  /\ pc = NoCalls

NextMut ==
  \/ \E d \in Payloads : \E t \in MutKeys(db.ix) : MutPut(db.ix, t, d)
  \/ \E t \in MutKeys(db.ix) : MutDel(db.ix, t)
  \/ TxCommit

SpecMut == InitMut /\ [][NextMut]_vars

\* ==================================================== bolt.Cursor
\* A bolt cursor is a value: its bucket, the length of its stack (0: not
\* positioned) and the index of its element in the bucket's sorted keys.
\* NilCur is the nil pointer, ZeroCur the value new(bolt.Cursor) makes.
NilCur == [nilp |-> TRUE, b |-> NoBucket, len |-> 0, idx |-> 0]

ZeroCur == [nilp |-> FALSE, b |-> NoBucket, len |-> 0, idx |-> 0]

BucketCursor(b) == [nilp |-> FALSE, b |-> b, len |-> 0, idx |-> 0]

KeyCount(st, b) == Cardinality(DOMAIN st.bk[b])

\* first index whose key is >= key (the count when there is none)
SearchIdx(st, b, key) == Cardinality({x \in DOMAIN st.bk[b] : x < key})

KeyAt(st, b, j) == CHOOSE x \in DOMAIN st.bk[b] : SearchIdx(st, b, x) = j

\* keyValue(): nil past either end
KeyValue(st, cv) ==
  IF cv.len = 0 \/ cv.idx < 0 \/ cv.idx >= KeyCount(st, cv.b)
  THEN [k |-> NoKey, v |-> NoVal]
  ELSE LET x == KeyAt(st, cv.b, cv.idx) IN [k |-> x, v |-> st.bk[cv.b][x]]

BoltRes(st, cv) == [cv |-> cv, k |-> KeyValue(st, cv).k, v |-> KeyValue(st, cv).v]

BoltNil(cv) == [cv |-> cv, k |-> NoKey, v |-> NoVal]

BoltFirst(st, cv) == BoltRes(st, [cv EXCEPT !.len = 1, !.idx = 0])

BoltLast(st, cv) == BoltRes(st, [cv EXCEPT !.len = 1, !.idx = KeyCount(st, cv.b) - 1])

\* at the last element Next returns nil and leaves the cursor there
BoltNext(st, cv) ==
  IF cv.len = 1 /\ cv.idx < KeyCount(st, cv.b) - 1
  THEN BoltRes(st, [cv EXCEPT !.idx = cv.idx + 1])
  ELSE BoltNil(cv)

\* at the first element Prev returns nil and empties the stack
BoltPrev(st, cv) ==
  IF cv.len = 1 /\ cv.idx > 0
  THEN BoltRes(st, [cv EXCEPT !.idx = cv.idx - 1])
  ELSE BoltNil([cv EXCEPT !.len = 0, !.idx = 0])

\* a Seek that lands after the key it is given
BoltSeekAfter(st, cv, key) ==
  BoltRes(st, [cv EXCEPT !.len = 1, !.idx = SearchIdx(st, cv.b, key + 1)])

BoltSeek(st, cv, key) ==
  BoltRes(st, [cv EXCEPT !.len = 1, !.idx = SearchIdx(st, cv.b, key)])

BoltMove(st, cv, op, key) ==
  CASE op = "First" -> BoltFirst(st, cv)
    [] op = "Last" -> BoltLast(st, cv)
    [] op = "Next" -> BoltNext(st, cv)
    [] op = "Prev" -> BoltPrev(st, cv)
    [] op = "Seek" -> BoltSeek(st, cv, key)

\* mutant of BytesCompare: the operands are taken the other way round
BytesCompareSwapped(a, b) == IF b > a THEN 1 ELSE IF b < a THEN 0 - 1 ELSE 0

\* bytes.Compare on one-byte keys; the nil slice is below every key
BytesCompare(a, b) == IF a > b THEN 1 ELSE IF a < b THEN 0 - 1 ELSE 0

\* copy(dst, src): min(len(dst), len(src)) bytes; a nil dst takes nothing
CopyBytes(dst, src) == IF dst = NoKey \/ src = NoKey THEN dst ELSE src

\* ==================================================== Cursor (cursor.go)
Levels(c) == 0..(c.NumKeys - 1)

\* bolt.Tx as the cursor sees it: writable or read-only, and open until it is
\* committed or rolled back
BeginTx(writable) == [writable |-> writable, state |-> "open"]

Writable(tx) == tx.writable

TxRes(tx, err) == [tx |-> tx, err |-> err]

BoltCommit(tx) ==
  IF tx.state # "open" THEN TxRes(tx, "tx closed")
  ELSE IF ~tx.writable THEN TxRes(tx, "tx not writable")
  ELSE TxRes([tx EXCEPT !.state = "committed"], "none")

BoltRollback(tx) ==
  IF tx.state # "open" THEN TxRes(tx, "tx closed")
  ELSE TxRes([tx EXCEPT !.state = "rolledback"], "none")

NewCursor(tx, bucket, numKeys, reverse) ==
  [state |-> "new", Tx |-> tx,
   Bucket |-> bucket, NumKeys |-> numKeys, Reverse |-> reverse,
   lck |-> 0,
   cursors |-> [i \in 0..(numKeys - 1) |-> NilCur],
   cursorsSave |-> [i \in 0..(numKeys - 1) |-> NilCur],
   ks |-> [i \in 0..(numKeys - 1) |-> NoKey],
   ksSave |-> [i \in 0..(numKeys - 1) |-> NoKey],
   err |-> "none", rollback |-> FALSE, skip |-> <<>>, ls |-> 0]

SetCur(c, i, cv) == [c EXCEPT !.cursors[i] = cv]

SetK(c, i, k) == [c EXCEPT !.ks[i] = k]

SetErr(c, e) == [c EXCEPT !.err = e]

\* results of the traversal functions: ok is "the returned keys are not nil"
\* (the keys are then c.ks), panic a run-time panic, hang a loop without exit
Ret(c, v) == [c |-> c, ok |-> TRUE, v |-> v, panic |-> FALSE, hang |-> FALSE]

Null(c) == [c |-> c, ok |-> FALSE, v |-> NoVal, panic |-> FALSE, hang |-> FALSE]

Panic(c) == [c |-> c, ok |-> FALSE, v |-> NoVal, panic |-> TRUE, hang |-> FALSE]

Hang(c) == [c |-> c, ok |-> FALSE, v |-> NoVal, panic |-> FALSE, hang |-> TRUE]

\* mutant of CurMove: the cursors go on working when the transaction is closed
CurMoveAnyTx(st, c, i, op, key) ==
  LET cv == c.cursors[i]
  IN IF cv.nilp \/ cv.b = NoBucket
     THEN [c |-> c, k |-> NoKey, v |-> NoVal, panic |-> TRUE]
     ELSE LET m == BoltMove(st, cv, op, key)
          IN [c |-> SetCur(c, i, m.cv), k |-> m.k, v |-> m.v, panic |-> FALSE]

\* c.cursors[i].<op>(key): a nil cursor or a cursor without bucket panics,
\* and so does a cursor of a transaction that is closed
CurMove(st, c, i, op, key) ==
  LET cv == c.cursors[i]
  IN IF cv.nilp \/ cv.b = NoBucket \/ c.Tx.state # "open"
     THEN [c |-> c, k |-> NoKey, v |-> NoVal, panic |-> TRUE]
     ELSE LET m == BoltMove(st, cv, op, key)
          IN [c |-> SetCur(c, i, m.cv), k |-> m.k, v |-> m.v, panic |-> FALSE]

\* c.cursors[j] = c.Tx.Bucket(v).Cursor(): panics when no bucket is named v
CanOpen(st, v) == v \in DOMAIN st.bk

OpenChild(c, j, v) == SetCur(c, j, BucketCursor(v))

\* a firstRev that ignores Reverse
firstRevForward(st, c, i) == CurMove(st, c, i, "First", NoKey)

firstRev(st, c, i) == CurMove(st, c, i, IF c.Reverse THEN "Last" ELSE "First", NoKey)

\* mutant of lastRev: bolt's Last whatever the orientation
lastRevForward(st, c, i) == CurMove(st, c, i, "Last", NoKey)

lastRev(st, c, i) == CurMove(st, c, i, IF c.Reverse THEN "First" ELSE "Last", NoKey)

nextRev(st, c, i) == CurMove(st, c, i, IF c.Reverse THEN "Prev" ELSE "Next", NoKey)

prevRev(st, c, i) == CurMove(st, c, i, IF c.Reverse THEN "Next" ELSE "Prev", NoKey)

RECURSIVE forwardNext(_, _, _)
forwardNext(st, c, i) ==
  LET r == firstRev(st, c, i)
  IN IF r.panic THEN Panic(r.c)
     ELSE IF r.k = NoKey
          THEN IF i = c.ls THEN Null(r.c) ELSE Null(SetErr(r.c, "db error"))
          ELSE LET c1 == SetK(r.c, i, r.k)
               IN IF i + 1 < c.NumKeys
                  THEN IF CanOpen(st, r.v)
                       THEN forwardNext(st, OpenChild(c1, i + 1, r.v), i + 1)
                       ELSE Panic(c1)
                  ELSE Ret(c1, r.v)

RECURSIVE forwardPrev(_, _, _)
forwardPrev(st, c, i) ==
  LET r == lastRev(st, c, i)
  IN IF r.panic THEN Panic(r.c)
     ELSE IF r.k = NoKey
          THEN IF i = c.ls THEN Null(r.c) ELSE Null(SetErr(r.c, "db error"))
          ELSE LET c1 == SetK(r.c, i, r.k)
               IN IF i + 1 < c.NumKeys
                  THEN IF CanOpen(st, r.v)
                       THEN forwardPrev(st, OpenChild(c1, i + 1, r.v), i + 1)
                       ELSE Panic(c1)
                  ELSE Ret(c1, r.v)

\* mutant of backNext: no backtracking, the result is null
backNextNull(st, c, i) == Null(c)

\* a backNext that does not stop at the first free level
RECURSIVE backNextNoPin(_, _, _)
backNextNoPin(st, c, i) ==
  LET r == nextRev(st, c, i)
  IN IF r.panic THEN Panic(r.c)
     ELSE IF r.k = NoKey
          THEN IF i - 1 < 0 THEN Null(r.c)
               ELSE backNextNoPin(st, r.c, i - 1)
          ELSE LET c1 == SetK(r.c, i, r.k)
               IN IF i + 1 < c.NumKeys
                  THEN IF CanOpen(st, r.v)
                       THEN forwardNext(st, OpenChild(c1, i + 1, r.v), i + 1)
                       ELSE Panic(c1)
                  ELSE Ret(c1, r.v)

RECURSIVE backNext(_, _, _)
backNext(st, c, i) ==
  LET r == nextRev(st, c, i)
  IN IF r.panic THEN Panic(r.c)
     ELSE IF r.k = NoKey
          THEN IF i = c.ls \/ i - 1 < 0 THEN Null(r.c)
               ELSE backNext(st, r.c, i - 1)
          ELSE LET c1 == SetK(r.c, i, r.k)
               IN IF i + 1 < c.NumKeys
                  THEN IF CanOpen(st, r.v)
                       THEN forwardNext(st, OpenChild(c1, i + 1, r.v), i + 1)
                       ELSE Panic(c1)
                  ELSE Ret(c1, r.v)

RECURSIVE backPrev(_, _, _)
backPrev(st, c, i) ==
  LET r == prevRev(st, c, i)
  IN IF r.panic THEN Panic(r.c)
     ELSE IF r.k = NoKey
          THEN IF i = c.ls \/ i - 1 < 0 THEN Null(r.c)
               ELSE backPrev(st, r.c, i - 1)
          ELSE LET c1 == SetK(r.c, i, r.k)
               IN IF i + 1 < c.NumKeys
                  THEN IF CanOpen(st, r.v)
                       THEN forwardPrev(st, OpenChild(c1, i + 1, r.v), i + 1)
                       ELSE Panic(c1)
                  ELSE Ret(c1, r.v)

RECURSIVE nextForward(_, _, _)
nextForward(st, c, i) ==
  LET r == CurMove(st, c, i, "Next", NoKey)
  IN IF r.panic THEN Panic(r.c)
     ELSE IF r.k = NoKey THEN Null(r.c)
     ELSE LET c1 == SetK(r.c, i, r.k)
          IN IF i < c.NumKeys - 1 THEN nextForward(st, c1, i + 1)
             ELSE Ret(c1, r.v)

RECURSIVE nextBack(_, _, _)
nextBack(st, c, i) ==
  IF i - 1 < 0 THEN Null(c)
  ELSE IF ~c.cursors[i].nilp
       THEN LET r == nextRev(st, c, i)
            IN IF r.panic THEN Panic(r.c)
               ELSE IF r.k = NoKey THEN Null(r.c)
               ELSE LET c1 == SetK(r.c, i, r.k)
                    IN IF i + 1 > c.NumKeys - 1 \/ ~CanOpen(st, r.v) THEN Panic(c1)
                       ELSE LET c2 == OpenChild(c1, i + 1, r.v)
                            IN IF i < c.NumKeys - 1 THEN nextForward(st, c2, i + 1)
                               ELSE Ret(c2, r.v)
       ELSE nextBack(st, c, i - 1)

\* a next that never leaves the leaf bucket
nextLeafOnly(st, c) ==
  LET level == c.NumKeys - 1
      r == nextRev(st, c, level)
  IN IF c.cursors[level].nilp \/ r.panic THEN Panic(c)
     ELSE IF r.k # NoKey THEN Ret(SetK(r.c, level, r.k), r.v)
     ELSE Null(r.c)

next(st, c) ==
  LET level == c.NumKeys - 1
  IN IF c.cursors[level].nilp THEN nextBack(st, c, level)
     ELSE LET r == nextRev(st, c, level)
          IN IF r.panic THEN Panic(r.c)
             ELSE IF r.k # NoKey THEN Ret(SetK(r.c, level, r.k), r.v)
             ELSE IF level - 1 >= c.ls THEN backNext(st, r.c, level - 1)
             ELSE Null(r.c)

\* mutant of prev: running out of keys at the leaf level latches an error
prevLatch(st, c) ==
  LET level == c.NumKeys - 1
      r == prevRev(st, c, level)
  IN IF r.panic THEN Panic(r.c)
     ELSE IF r.k # NoKey THEN Ret(SetK(r.c, level, r.k), r.v)
     ELSE IF level - 1 >= c.ls THEN backPrev(st, r.c, level - 1)
     ELSE Null(SetErr(r.c, "db error"))

prev(st, c) ==
  LET level == c.NumKeys - 1
      r == prevRev(st, c, level)
  IN IF r.panic THEN Panic(r.c)
     ELSE IF r.k # NoKey THEN Ret(SetK(r.c, level, r.k), r.v)
     ELSE IF level - 1 >= c.ls THEN backPrev(st, r.c, level - 1)
     ELSE Null(r.c)

\* the loop of First (firstRev at each level) and of last (lastRev)
RECURSIVE descend(_, _, _, _)
descend(st, c, i, useLast) ==
  LET r == IF useLast THEN lastRev(st, c, i) ELSE firstRev(st, c, i)
  IN IF r.panic THEN Panic(r.c)
     ELSE IF r.k = NoKey THEN Null(r.c)
     ELSE LET c1 == SetK(r.c, i, r.k)
          IN IF i + 1 < c.NumKeys
             THEN IF CanOpen(st, r.v)
                  THEN descend(st, OpenChild(c1, i + 1, r.v), i + 1, useLast)
                  ELSE Panic(c1)
             ELSE Ret(c1, r.v)

first(st, c) == descend(st, c, c.ls, FALSE)

last_(st, c) == descend(st, c, c.ls, TRUE)

\* keys[i] = s for the pinned dimensions
PinKeys(c, keys) ==
  [i \in 1..Len(keys) |-> IF i <= Len(c.skip) THEN c.skip[i] ELSE keys[i]]

RECURSIVE seekWalk(_, _, _, _)
seekWalk(st, c, keys, i) ==
  LET r == CurMove(st, c, i, "Seek", keys[i + 1])
  IN IF r.panic THEN Panic(r.c)
     ELSE IF r.k = NoKey
     THEN IF i - 1 < 0 THEN Null(r.c)
          ELSE IF c.Reverse
          THEN IF Len(c.skip) > 0 /\ BytesCompare(keys[i + 1], c.ks[i]) = 1
               THEN next(st, r.c)
               ELSE LET l == CurMove(st, r.c, i, "Last", NoKey)
                    IN IF l.k = NoKey THEN Null(l.c)
                       ELSE LET c1 == SetK(l.c, i, l.k)
                            IN IF c.NumKeys - 1 > i
                               THEN IF CanOpen(st, l.v)
                                    THEN forwardNext(st, OpenChild(c1, i + 1, l.v), i + 1)
                                    ELSE Panic(c1)
                               ELSE Ret(c1, l.v)
          ELSE IF Len(c.skip) > 0 /\ BytesCompare(keys[i + 1], c.ks[i]) = 1
               THEN last_(st, r.c)
               ELSE backNext(st, r.c, i - 1)
     ELSE LET c1 == SetK(r.c, i, r.k)
          IN IF c.NumKeys - 1 > i
             THEN IF CanOpen(st, r.v)
                  THEN seekWalk(st, OpenChild(c1, i + 1, r.v), keys, i + 1)
                  ELSE Panic(c1)
             ELSE Ret(c1, r.v)

seek(st, c, keys) ==
  IF Len(keys) # c.NumKeys THEN Null(SetErr(c, "wrong number of keys"))
  ELSE seekWalk(st, c, PinKeys(c, keys), c.ls)

\* ---- Skip: skipForward (back = FALSE) and skipBackward (back = TRUE)
SkipFirst(back) == IF back THEN "Last" ELSE "First"

SkipNext(back) == IF back THEN "Prev" ELSE "Next"

\* "Start a vector with all cursor set to start"
RECURSIVE skipStart(_, _, _, _)
skipStart(st, c, i, back) ==
  IF i >= c.NumKeys THEN Ret(c, NoVal)
  ELSE Only({IF r.panic THEN Panic(r.c)
             ELSE IF r.v = NoVal THEN Null(r.c)
             ELSE IF ~CanOpen(st, r.v) THEN Panic(r.c)
             ELSE skipStart(st, SetK(OpenChild(r.c, i, r.v), i - 1, r.k), i + 1, back)
             : r \in {CurMove(st, c, i - 1, SkipFirst(back), NoKey)}})

\* the loop over j: new cursors from i + 1 to the end, all on the bucket v
RECURSIVE skipReset(_, _, _, _, _)
skipReset(st, c, j, v, back) ==
  IF j >= c.NumKeys THEN Ret(c, v)
  ELSE IF ~CanOpen(st, v) THEN Panic(c)
  ELSE IF j < c.NumKeys - 1
  THEN Only({IF r.v = NoVal THEN Null(SetErr(r.c, "error iterating over the data"))
             ELSE skipReset(st, SetK(r.c, j, r.k), j + 1, v, back)
             : r \in {CurMove(st, OpenChild(c, j, v), j, SkipNext(back), NoKey)}})
  ELSE skipReset(st, OpenChild(c, j, v), j + 1, v, back)

\* the loop G: tag "found" (p is a new cursor on bucket v), "stop" (break F),
\* "none" (the loop ran out: F goes round again with the same p), "fail"
RECURSIVE skipUp(_, _, _, _)
skipUp(st, c, i, back) ==
  IF i < c.ls THEN [tag |-> "none", r |-> Null(c)]
  ELSE Only({IF m.panic THEN [tag |-> "fail", r |-> Panic(m.c)]
             ELSE IF m.v = NoVal
             THEN IF i = 0 THEN [tag |-> "stop", r |-> Null(m.c)]
                  ELSE skipUp(st, m.c, i - 1, back)
             ELSE Only({IF s.ok THEN [tag |-> "found", r |-> s]
                        ELSE [tag |-> "fail", r |-> s]
                        : s \in {skipReset(st, SetK(m.c, i, m.k), i + 1, m.v, back)}})
             : m \in {CurMove(st, c, i, SkipNext(back), NoKey)}})

\* the position p ends on after the counting loop ran over all its keys
SkipExhausted(st, p, back) ==
  IF back THEN [p EXCEPT !.len = 0, !.idx = 0]
  ELSE [p EXCEPT !.len = 1, !.idx = IF KeyCount(st, p.b) = 0 THEN 0
                                    ELSE KeyCount(st, p.b) - 1]

\* the position of p on its n-th key from the oriented start
SkipAt(st, p, n, back) ==
  [p EXCEPT !.len = 1, !.idx = IF back THEN KeyCount(st, p.b) - 1 - n ELSE n]

\* the loop F; own: p is still the cursor c.cursors[level], i: keys counted.
\* A round whose counting loop finds p's bucket empty and whose loop G runs
\* out changes nothing: F repeats for ever
RECURSIVE skipCount(_, _, _, _, _, _, _)
skipCount(st, c, p, own, i, count, back) ==
  IF p.nilp \/ p.b = NoBucket \/ c.Tx.state # "open" THEN Panic(c)
  ELSE IF count - i < KeyCount(st, p.b)
  THEN Only({Ret(SetK(IF own THEN SetCur(c, c.NumKeys - 1, q) ELSE c,
                      c.NumKeys - 1, KeyValue(st, q).k),
                 KeyValue(st, q).v)
             : q \in {SkipAt(st, p, count - i, back)}})
  ELSE Only({CASE g.tag = "fail" -> g.r
               [] g.tag = "stop" -> g.r
               [] g.tag = "found" ->
                    skipCount(st, g.r.c, BucketCursor(g.r.v), FALSE,
                              i + KeyCount(st, p.b), count, back)
               [] g.tag = "none" ->
                    IF KeyCount(st, p.b) = 0 THEN Hang(g.r.c)
                    ELSE skipCount(st, g.r.c, SkipExhausted(st, p, back), own,
                                   i + KeyCount(st, p.b), count, back)
             : g \in {skipUp(st, IF own THEN SetCur(c, c.NumKeys - 1,
                                                    SkipExhausted(st, p, back))
                                 ELSE c,
                             c.NumKeys - 1 - 1, back)}})

skipWalk(st, c, count, back) ==
  Only({IF s.panic \/ ~s.ok THEN s
        ELSE skipCount(st, s.c, s.c.cursors[c.NumKeys - 1], TRUE, 0, count, back)
        : s \in {skipStart(st, c, 1 + c.ls, back)}})

skipForward(st, c, count) == skipWalk(st, c, count, FALSE)

skipBackward(st, c, count) == skipWalk(st, c, count, TRUE)

\* ---- snapshot and restore
saveState(c) ==
  [c EXCEPT !.cursorsSave = [i \in Levels(c) |->
                               IF c.cursors[i].nilp THEN c.cursorsSave[i]
                               ELSE c.cursors[i]],
            !.ksSave = [i \in Levels(c) |->
                          IF c.cursors[i].nilp THEN c.ksSave[i]
                          ELSE CopyBytes(c.ksSave[i], c.ks[i])]]

\* *c.cursors[i] = *c.cursorsSave[i] panics on a nil c.cursors[i]
restoreState(c) ==
  IF \E i \in Levels(c) : c.cursors[i].nilp THEN Panic(c)
  ELSE Null([c EXCEPT !.cursors = [i \in Levels(c) |-> c.cursorsSave[i]],
                      !.ks = [i \in Levels(c) |-> CopyBytes(c.ks[i], c.ksSave[i])]])

\* the deferred function of the public operations
Finish(r) == IF r.panic \/ r.hang \/ r.ok THEN r ELSE restoreState(r.c)

Skip(st, c, count) ==
  Finish(IF c.Reverse THEN skipBackward(st, saveState(c), count)
         ELSE skipForward(st, saveState(c), count))

Seek(st, c, keys) == Finish(seek(st, saveState(c), keys))

Next_(st, c) == Finish(next(st, saveState(c)))

Prev(st, c) == Finish(prev(st, saveState(c)))

First(st, c) == Finish(first(st, saveState(c)))

Last(st, c) == Finish(last_(st, saveState(c)))

\* ---- Init
\* mutant of initWalk: a seek that lands on a greater key is taken as a hit
RECURSIVE initWalkLoose(_, _, _, _)
initWalkLoose(st, c, keys, i) ==
  IF i >= Len(keys)
  THEN [c |-> [c EXCEPT !.skip = keys, !.ls = Len(keys), !.state = "ready"],
        err |-> "none", panic |-> FALSE]
  ELSE LET c1 == SetK(c, i, keys[i + 1])
           r == CurMove(st, c1, i, "Seek", keys[i + 1])
       IN IF r.panic THEN [c |-> r.c, err |-> "none", panic |-> TRUE]
          ELSE IF r.k = NoKey
          THEN [c |-> [r.c EXCEPT !.state = "failed"], err |-> "key not found",
                panic |-> FALSE]
          ELSE IF ~CanOpen(st, r.v) THEN [c |-> r.c, err |-> "none", panic |-> TRUE]
          ELSE initWalkLoose(st, OpenChild(r.c, i + 1, r.v), keys, i + 1)

RECURSIVE initWalk(_, _, _, _)
initWalk(st, c, keys, i) ==
  IF i >= Len(keys)
  THEN [c |-> [c EXCEPT !.skip = keys, !.ls = Len(keys), !.state = "ready"],
        err |-> "none", panic |-> FALSE]
  ELSE LET c1 == SetK(c, i, keys[i + 1])
           r == CurMove(st, c1, i, "Seek", keys[i + 1])
       IN IF r.panic THEN [c |-> r.c, err |-> "none", panic |-> TRUE]
          ELSE IF r.k = NoKey \/ r.k # keys[i + 1]
          THEN [c |-> [r.c EXCEPT !.state = "failed"], err |-> "key not found",
                panic |-> FALSE]
          ELSE IF ~CanOpen(st, r.v) THEN [c |-> r.c, err |-> "none", panic |-> TRUE]
          ELSE initWalk(st, OpenChild(r.c, i + 1, r.v), keys, i + 1)

\* the four make calls and the loop that fills cursorsSave
InitAlloc(c) ==
  [c EXCEPT !.cursors = [i \in Levels(c) |-> NilCur],
            !.ks = [i \in Levels(c) |-> NoKey],
            !.cursorsSave = [i \in Levels(c) |-> ZeroCur],
            !.ksSave = [i \in Levels(c) |-> NoKey]]

\* the rest of Init, from c.Tx.Bucket(c.Bucket) on
InitOpen(st, c0, keys) ==
  LET c == c0
      b == TxBucket(st, c.Bucket)
  IN IF c.Tx.state # "open" THEN [c |-> c0, err |-> "none", panic |-> TRUE]
     ELSE IF b = NoBucket
     THEN [c |-> [c0 EXCEPT !.state = "failed"], err |-> "invalid bucket",
           panic |-> FALSE]
     ELSE IF Len(keys) > c.NumKeys - 1
     THEN [c |-> [SetCur(c0, 0, BucketCursor(b)) EXCEPT !.state = "failed"],
           err |-> "invalid number of keys", panic |-> FALSE]
     ELSE initWalk(st, SetCur(c0, 0, BucketCursor(b)), keys, 0)

Init_(st, c, keys) == InitOpen(st, InitAlloc(c), keys)

\* ---- Commit and Rollback: results [c, err]
FinRes(c, err) == [c |-> c, err |-> err]

\* what both do once the transaction method r has returned
Finalize(c, r) ==
  IF r.err # "none" THEN FinRes([c EXCEPT !.Tx = r.tx], r.err)
  ELSE FinRes([c EXCEPT !.Tx = r.tx, !.rollback = TRUE], "none")

\* mutant of Rollback: the finalized flag is not looked at
RollbackAgain(c) == Finalize(c, BoltRollback(c.Tx))

Rollback(c) ==
  IF c.rollback THEN FinRes(c, "already rolled back/commited")
  ELSE Finalize(c, BoltRollback(c.Tx))

\* mutant of Commit: the transaction is rolled back whatever its kind
CommitAsRollback(c) ==
  IF c.rollback THEN FinRes(c, "already rolled back/commited")
  ELSE Finalize(c, BoltRollback(c.Tx))

Commit(c) ==
  IF c.rollback THEN FinRes(c, "already rolled back/commited")
  ELSE IF Writable(c.Tx) THEN Finalize(c, BoltCommit(c.Tx))
  ELSE Finalize(c, BoltRollback(c.Tx))

\* mutant of Err: the latch is returned and kept
ErrKeep(c) == [c |-> c, err |-> c.err]

Err(c) == [c |-> [c EXCEPT !.err = "none"], err |-> c.err]

\* ------------------------------------------------- the cursor's actions
\* the largest index the cursor is run on, the largest count given to Skip
MaxIndex == 3

MaxSkip == 3

\* tuple-lexicographic order of composite keys of one length
LexLess(a, b) ==
  \E i \in 1..Len(a) : a[i] < b[i] /\ \A j \in 1..(i - 1) : a[j] = b[j]

LexLeq(a, b) == a = b \/ LexLess(a, b)

\* the payload the tests give a composite key: a number made of its keys,
\* below zero so that it is no key and no bucket name
PayloadFor(t) == 0 - (100 + PrefixCode(t))

\* the orders of insertion: sequences of up to n distinct keys of depth d
RECURSIVE KeyOrders(_, _)
KeyOrders(d, n) ==
  IF n = 0 THEN {<<>>}
  ELSE LET P == KeyOrders(d, n - 1)
       IN P \cup {Append(p[1], p[2]) :
                    p \in {q \in P \X KeyTuples(d) :
                             /\ Len(q[1]) = n - 1
                             /\ \A i \in 1..Len(q[1]) : q[1][i] # q[2]}}

\* Put of every key of s, in the order of s
RECURSIVE PutAll(_, _, _)
PutAll(st, bucket, s) ==
  IF s = <<>> THEN st
  ELSE PutAll(Put(st, bucket, Head(s), PayloadFor(Head(s))).st, bucket, Tail(s))

\* the committed stores: one index of depth ix populated with up to n keys;
\* with no key the outer bucket was never made (TestCursorSkipNobucket)
Indexes(ix, n) ==
  {TxCommitDb(PutAll(EmptyDb(ix), ix, s)) : s \in KeyOrders(DepthOf(ix), n)}

\* the composite key under the cursor: c.ks
KsTuple(c) == [i \in 1..c.NumKeys |-> c.ks[i - 1]]

Prefixes(n) == UNION {KeyTuples(p) : p \in 0..n}

\* arguments of Seek: a key above every stored key, and the empty vector
RECURSIVE SeekTuples(_)
SeekTuples(n) ==
  IF n = 0 THEN {<<>>}
  ELSE {Append(t, k) : t \in SeekTuples(n - 1), k \in 1..(MaxKey + 1)}

SeekArgs(n) == SeekTuples(n) \cup {<<>>}

\* the record of the last call on the cursor
CurLast(op, args, r) ==
  [op |-> op, args |-> args, ok |-> r.ok,
   k |-> IF r.ok THEN KsTuple(r.c) ELSE <<>>, v |-> r.v, hang |-> r.hang]

\* a populated index and a cursor made on it, not yet initialised
InitIndex(n) ==
  /\ \E ix \in OuterBuckets : \E rev \in BOOLEAN :
        /\ db \in Indexes(ix, n)
        /\ cur = NewCursor(BeginTx(FALSE), ix, DepthOf(ix), rev)
  /\ last = [op |-> "none"]
  /\ hist = NoHist
  /\ fault = FALSE
  /\ twin = NoCursor
  /\ pc = NoCalls

InitCur == InitIndex(MaxEntries)

InitIter == InitIndex(MaxIndex)

CurInit(keys) ==
  /\ ~fault /\ cur.state = "new"
  /\ LET r == Init_(db, cur, keys)
     IN /\ cur' = r.c
        /\ last' = [op |-> "Init", args |-> keys, err |-> r.err]
        /\ fault' = r.panic
  /\ UNCHANGED <<db, hist, twin, pc>>

\* mutant of CurStep: the record an operation returns is deleted from its bucket
CurStepDrop(op, args, r) ==
  /\ cur' = r.c
  /\ last' = CurLast(op, args, r)
  /\ fault' = r.panic
  /\ db' = IF r.ok
           THEN BucketDelete(db, r.c.cursors[r.c.NumKeys - 1].b,
                             r.c.ks[r.c.NumKeys - 1])
           ELSE db
  /\ UNCHANGED <<hist, twin, pc>>

\* one public operation of the cursor, r its result
CurStep(op, args, r) ==
  /\ cur' = r.c
  /\ last' = CurLast(op, args, r)
  /\ fault' = r.panic
  /\ UNCHANGED <<db, hist, twin, pc>>

CurReady == ~fault /\ cur.state = "ready"

CurFirst == CurReady /\ CurStep("First", <<>>, First(db, cur))

CurLast_ == CurReady /\ CurStep("Last", <<>>, Last(db, cur))

CurNext == CurReady /\ CurStep("Next", <<>>, Next_(db, cur))

CurPrev == CurReady /\ CurStep("Prev", <<>>, Prev(db, cur))

CurSeek(keys) == CurReady /\ CurStep("Seek", keys, Seek(db, cur, keys))

CurSkip(count) == CurReady /\ CurStep("Skip", <<count>>, Skip(db, cur, count))

CurErr ==
  /\ CurReady
  /\ cur' = Err(cur).c
  /\ last' = [op |-> "Err", args |-> <<>>, err |-> Err(cur).err]
  /\ UNCHANGED <<db, hist, fault, twin, pc>>

NextCur ==
  \/ \E keys \in Prefixes(cur.NumKeys) : CurInit(keys)
  \/ CurFirst
  \/ CurLast_
  \/ CurNext
  \/ CurPrev
  \/ \E keys \in SeekArgs(cur.NumKeys) : CurSeek(keys)
  \/ \E count \in 0..MaxSkip : CurSkip(count)
  \/ CurErr

SpecCur == InitCur /\ [][NextCur]_vars

\* one iteration: First then Next, or Last then Prev, the results kept in hist
IterStep(op, r) ==
  /\ cur' = r.c
  /\ last' = CurLast(op, <<>>, r)
  /\ hist' = IF r.ok THEN Append(hist, [k |-> KsTuple(r.c), v |-> r.v]) ELSE hist
  /\ fault' = r.panic
  /\ UNCHANGED <<db, twin, pc>>

IterFirst == CurReady /\ last.op = "Init" /\ IterStep("First", First(db, cur))

IterNext ==
  CurReady /\ last.op \in {"First", "Next"} /\ last.ok /\ IterStep("Next", Next_(db, cur))

IterLast == CurReady /\ last.op = "Init" /\ IterStep("Last", Last(db, cur))

IterPrev ==
  CurReady /\ last.op \in {"Last", "Prev"} /\ last.ok /\ IterStep("Prev", Prev(db, cur))

NextIter ==
  \/ \E keys \in Prefixes(cur.NumKeys) : CurInit(keys)
  \/ IterFirst
  \/ IterNext
  \/ IterLast
  \/ IterPrev

SpecIter == InitIter /\ [][NextIter]_vars

\* a cursor on a transaction of its own (db.Begin), read-only or writable,
\* that is finalized by Commit or Rollback; the store has no change pending,
\* so committing and rolling back leave its contents as they are
InitTx ==
  /\ \E ix \in OuterBuckets : \E rev \in BOOLEAN : \E w \in BOOLEAN :
        /\ db \in Indexes(ix, MaxEntries)
        /\ cur = NewCursor(BeginTx(w), ix, DepthOf(ix), rev)
  /\ last = [op |-> "none"]
  /\ hist = NoHist
  /\ fault = FALSE
  /\ twin = NoCursor
  /\ pc = NoCalls

CurFinal(op, r) ==
  /\ ~fault
  /\ cur' = r.c
  /\ last' = [op |-> op, args |-> <<>>, err |-> r.err]
  /\ UNCHANGED <<db, hist, fault, twin, pc>>

CurCommit == CurFinal("Commit", Commit(cur))

CurRollback == CurFinal("Rollback", Rollback(cur))

NextTx ==
  \/ \E keys \in Prefixes(cur.NumKeys) : CurInit(keys)
  \/ CurFirst
  \/ CurNext
  \/ CurCommit
  \/ CurRollback

SpecTx == InitTx /\ [][NextTx]_vars

\* ------------------------------------- one cursor shared by several threads
\* The methods that start with c.lck.Lock(); defer c.lck.Unlock() take two
\* steps: the Lock, which waits until c.lck is free, and the body with the
\* deferred Unlock. Init has no Lock: its steps are the allocation of the four
\* vectors and the walk that opens the cursors; c.lck is the thread that holds
\* the mutex, 0 when it is free.
NumThreads == 2

Threads == 1..NumThreads

\* the number of calls a thread makes
MaxCalls == 2

\* the position of a thread: the call in progress and the calls left to make
Idle(n) == [op |-> "none", args |-> <<>>, at |-> "idle", left |-> n]

Calling(p, op, args, at) ==
  [op |-> op, args |-> args, at |-> at, left |-> p.left - 1]

\* the calls of the methods that lock
LockedCalls(n) ==
  {[op |-> o, args |-> <<>>] :
      o \in {"First", "Last", "Next", "Prev", "Err", "Commit", "Rollback"}}
    \cup {[op |-> "Seek", args |-> keys] : keys \in KeyTuples(n)}
    \cup {[op |-> "Skip", args |-> <<1>>]}

\* the body of a locked method: the cursor it leaves, the record of the call
\* and whether it ended in a panic
LckBody(st, c, call) ==
  IF call.op = "Err"
  THEN [c |-> Err(c).c, panic |-> FALSE,
        last |-> [op |-> "Err", args |-> <<>>, err |-> Err(c).err]]
  ELSE IF call.op \in {"Commit", "Rollback"}
  THEN LET r == IF call.op = "Commit" THEN Commit(c) ELSE Rollback(c)
       IN [c |-> r.c, panic |-> FALSE,
           last |-> [op |-> call.op, args |-> <<>>, err |-> r.err]]
  ELSE Only({[c |-> r.c, panic |-> r.panic,
               last |-> CurLast(call.op, call.args, r)] :
             r \in {CASE call.op = "First" -> First(st, c)
                      [] call.op = "Last" -> Last(st, c)
                      [] call.op = "Next" -> Next_(st, c)
                      [] call.op = "Prev" -> Prev(st, c)
                      [] call.op = "Seek" -> Seek(st, c, call.args)
                      [] call.op = "Skip" -> Skip(st, c, call.args[1])}})

InitLck ==
  /\ \E ix \in {b \in OuterBuckets : DepthOf(b) <= 2} : \E rev \in BOOLEAN :
        /\ db \in Indexes(ix, 1)
        /\ cur = NewCursor(BeginTx(FALSE), ix, DepthOf(ix), rev)
  /\ last = [op |-> "none"]
  /\ hist = NoHist
  /\ fault = FALSE
  /\ twin = NoCursor
  /\ pc = [t \in Threads |-> Idle(MaxCalls)]

\* Init, lines 33-40: no Lock, the vectors are replaced at once
LckInitAlloc(t, keys) ==
  /\ ~fault /\ pc[t].at = "idle" /\ pc[t].left > 0
  /\ cur' = InitAlloc(cur)
  /\ pc' = [pc EXCEPT ![t] = Calling(pc[t], "Init", keys, "open")]
  /\ UNCHANGED <<db, last, hist, fault, twin>>

\* Init, lines 42-67
LckInitOpen(t) ==
  /\ ~fault /\ pc[t].at = "open"
  /\ \E r \in {InitOpen(db, cur, pc[t].args)} :
        /\ cur' = r.c
        /\ last' = [op |-> "Init", args |-> pc[t].args, err |-> r.err]
        /\ fault' = r.panic
  /\ pc' = [pc EXCEPT ![t] = Idle(pc[t].left)]
  /\ UNCHANGED <<db, hist, twin>>

\* c.lck.Lock() of a method called on an initialised cursor
LckLock(t, call) ==
  /\ ~fault /\ pc[t].at = "idle" /\ pc[t].left > 0 /\ cur.state = "ready"
  /\ cur.lck = 0
  /\ cur' = [cur EXCEPT !.lck = t]
  /\ pc' = [pc EXCEPT ![t] = Calling(pc[t], call.op, call.args, "body")]
  /\ UNCHANGED <<db, last, hist, fault, twin>>

\* the body of the method and the deferred c.lck.Unlock(); a body that
\* never ends keeps the mutex
LckRun(t) ==
  /\ ~fault /\ pc[t].at = "body"
  /\ \E r \in {LckBody(db, cur, pc[t])} :
        /\ (r.last.op \in {"First", "Last", "Next", "Prev", "Seek", "Skip"}
              => ~r.last.hang)
        /\ cur' = [r.c EXCEPT !.lck = 0]
        /\ last' = r.last
        /\ fault' = r.panic
  /\ pc' = [pc EXCEPT ![t] = Idle(pc[t].left)]
  /\ UNCHANGED <<db, hist, twin>>

NextLck ==
  \/ \E t \in Threads : \E keys \in Prefixes(cur.NumKeys - 1) : LckInitAlloc(t, keys)
  \/ \E t \in Threads : LckInitOpen(t)
  \/ \E t \in Threads : \E call \in LockedCalls(cur.NumKeys) : LckLock(t, call)
  \/ \E t \in Threads : LckRun(t)

SpecLck == InitLck /\ [][NextLck]_vars

\* ------------------------------------------ the index of TestCursorSeek
\* key1..key4 are the keys 1..4, the payload "xy" is PayloadFor(<<x, y>>)
SeekData ==
  <<(<<1, 1>>), (<<1, 2>>), (<<1, 3>>), (<<2, 1>>), (<<2, 2>>), (<<3, 1>>)>>

\* the keys the test seeks: those of data and those of data2
SeekData2 ==
  {SeekData[i] : i \in 1..Len(SeekData)} \cup {<<1, 4>>, <<2, 3>>, <<4, 1>>}

\* db.Update with Put of every entry, then db.View with a cursor of two levels
InitSeek ==
  /\ db = TxCommitDb(PutAll(EmptyDb(2), 2, SeekData))
  /\ \E rev \in BOOLEAN : cur = NewCursor(BeginTx(FALSE), 2, 2, rev)
  /\ last = [op |-> "none"]
  /\ hist = NoHist
  /\ fault = FALSE
  /\ twin = NoCursor
  /\ pc = NoCalls

NextSeek ==
  \/ CurInit(<<>>)
  \/ \E keys \in SeekData2 : CurSeek(keys)
  \/ CurFirst
  \/ CurNext

SpecSeek == InitSeek /\ [][NextSeek]_vars

\* ---------------------------------------- indexes that keys were deleted from
\* Del of every key of s, in the order of s, in one transaction
RECURSIVE DelAll(_, _, _)
DelAll(st, bucket, s) ==
  IF s = <<>> THEN MutRes(st, "none", FALSE)
  ELSE Only({IF r.panic \/ r.err # "none" THEN r
             ELSE DelAll(r.st, bucket, Tail(s)) :
             r \in {Del(st, bucket, Head(s))}})

\* the committed stores after one transaction that put up to n keys and a
\* second one that deleted the first m of them
Thinned(ix, n) ==
  {TxCommitDb(r.st) :
     r \in {q \in UNION {{DelAll(TxCommitDb(PutAll(EmptyDb(ix), ix, s)), ix,
                                  SubSeq(s, 1, m)) : m \in 0..Len(s)} :
                          s \in KeyOrders(DepthOf(ix), n)} :
              ~q.panic /\ q.err = "none"}}

InitEmpty ==
  /\ \E ix \in OuterBuckets : \E rev \in BOOLEAN :
        /\ db \in Thinned(ix, MaxEntries)
        /\ cur = NewCursor(BeginTx(FALSE), ix, DepthOf(ix), rev)
  /\ last = [op |-> "none"]
  /\ hist = NoHist
  /\ fault = FALSE
  /\ twin = NoCursor
  /\ pc = NoCalls

NextEmpty ==
  \/ \E keys \in Prefixes(cur.NumKeys) : CurInit(keys)
  \/ CurFirst
  \/ CurLast_
  \/ \E count \in 0..MaxSkip : CurSkip(count)
  \/ CurErr

SpecEmpty == InitEmpty /\ [][NextEmpty]_vars

\* ----------------------------------------- indexes with a broken chain
\* the values of the interior entries of the index: the names of sub-buckets
SubBuckets(st, bucket) ==
  {h \in DOMAIN st.bk : \E b \in DOMAIN st.bk : \E k \in DOMAIN st.bk[b] :
                          st.bk[b][k] = h}

\* the thinned indexes, and those with one sub-bucket deleted by a
\* transaction that called bolt's DeleteBucket on its name
Broken(ix, n) ==
  UNION {{st} \cup {TxCommitDb(DeleteBucket(st, h)) : h \in SubBuckets(st, ix)} :
           st \in Thinned(ix, n)}

InitBroken ==
  /\ \E ix \in OuterBuckets : \E rev \in BOOLEAN :
        /\ db \in Broken(ix, MaxIndex)
        /\ cur = NewCursor(BeginTx(FALSE), ix, DepthOf(ix), rev)
  /\ last = [op |-> "none"]
  /\ hist = NoHist
  /\ fault = FALSE
  /\ twin = NoCursor
  /\ pc = NoCalls

NextBroken ==
  \/ \E keys \in Prefixes(cur.NumKeys - 1) : CurInit(keys)
  \/ CurFirst
  \/ CurLast_
  \/ CurNext
  \/ CurPrev
  \/ CurErr

SpecBroken == InitBroken /\ [][NextBroken]_vars

\* ------------------------------- a reverse cursor and a forward one abreast
\* cur has Reverse = true and twin Reverse = false; both are on the same
\* transaction, index and pin. Every call made on cur is made on twin with
\* First and Last swapped and Next and Prev swapped.
Swapped(op) ==
  CASE op = "First" -> "Last"
    [] op = "Last" -> "First"
    [] op = "Next" -> "Prev"
    [] op = "Prev" -> "Next"

Traverse(st, c, op) ==
  CASE op = "First" -> First(st, c)
    [] op = "Last" -> Last(st, c)
    [] op = "Next" -> Next_(st, c)
    [] op = "Prev" -> Prev(st, c)

\* what a call returned to its caller: the keys and the payload, or nil, or
\* no return at all
Returned(op, r) ==
  [CurLast(op, <<>>, r) EXCEPT !.op = IF r.panic THEN "panic" ELSE "return"]

InitSym ==
  /\ \E ix \in OuterBuckets :
        /\ db \in Thinned(ix, MaxIndex)
        /\ cur = NewCursor(BeginTx(FALSE), ix, DepthOf(ix), TRUE)
        /\ twin = NewCursor(BeginTx(FALSE), ix, DepthOf(ix), FALSE)
  /\ last = [op |-> "none"]
  /\ hist = NoHist
  /\ fault = FALSE
  /\ pc = NoCalls

SymInit(keys) ==
  /\ ~fault /\ cur.state = "new"
  /\ \E r \in {Init_(db, cur, keys)} : \E t \in {Init_(db, twin, keys)} :
        /\ cur' = r.c
        /\ twin' = t.c
        /\ last' = [op |-> "Init", args |-> keys, err |-> r.err, twin |-> t.err]
        /\ fault' = (r.panic \/ t.panic)
  /\ UNCHANGED <<db, hist, pc>>

SymStep(op) ==
  /\ ~fault /\ cur.state = "ready" /\ twin.state = "ready"
  /\ \E r \in {Traverse(db, cur, op)} :
     \E t \in {Traverse(db, twin, Swapped(op))} :
        /\ cur' = r.c
        /\ twin' = t.c
        /\ last' = [op |-> op, mine |-> Returned(op, r),
                    twin |-> Returned(op, t)]
        /\ fault' = (r.panic \/ t.panic)
  /\ UNCHANGED <<db, hist, pc>>

NextSym ==
  \/ \E keys \in Prefixes(cur.NumKeys - 1) : SymInit(keys)
  \/ \E op \in {"First", "Last", "Next", "Prev"} : SymStep(op)

SpecSym == InitSym /\ [][NextSym]_vars

\* ==================================================== claims: iteration
\* the composite keys of the index that lie under the cursor's pin
Range(st, c) ==
  {t \in Entries(st, c.Bucket) : SubSeq(t, 1, c.ls) = c.skip}

HistKeys == {hist[i].k : i \in 1..Len(hist)}

\* the results so far are keys of the range, each once, in order (descending
\* when desc), with no key of the range passed over, and a null result came
\* only after every key of the range
IterLaw(desc) ==
  /\ \A i \in 1..Len(hist) : hist[i].k \in Range(db, cur)
  /\ \A i \in 1..(Len(hist) - 1) :
        IF desc THEN LexLess(hist[i + 1].k, hist[i].k)
        ELSE LexLess(hist[i].k, hist[i + 1].k)
  /\ \A t \in Range(db, cur) \ HistKeys : \A h \in HistKeys :
        IF desc THEN LexLess(t, h) ELSE LexLess(h, t)
  /\ ~last.ok => HistKeys = Range(db, cur)

\* C1: on an index populated by Put, a forward cursor initialised with any
\* pin returns, by First and repeated Next, every key under the pin once in
\* ascending order and then null; by Last and repeated Prev, every such key
\* once in descending order and then null; no call fails, so both end.
C1_ForwardIteration ==
  (cur.state = "ready" /\ ~cur.Reverse) =>
     /\ ~fault
     /\ last.op \in {"First", "Next"} => IterLaw(FALSE)
     /\ last.op \in {"Last", "Prev"} => IterLaw(TRUE)

C1_Witness ==
  /\ ~cur.Reverse /\ cur.NumKeys = 3 /\ cur.ls = 1
  /\ last.op = "Next" /\ ~last.ok /\ Len(hist) = 2
  /\ hist[1].k[2] # hist[2].k[2]
  /\ Cardinality(Entries(db, cur.Bucket)) = 3

\* C2: with Reverse set, First returns the greatest key and Last the
\* smallest; First and repeated Next return every key once in descending
\* order, Last and repeated Prev in ascending order, each ending with null.
C2_ReverseIteration ==
  (cur.state = "ready" /\ cur.Reverse) =>
     /\ ~fault
     /\ last.op \in {"First", "Next"} => IterLaw(TRUE)
     /\ last.op \in {"Last", "Prev"} => IterLaw(FALSE)
     /\ last.op = "First" =>
           last.ok /\ \A t \in Range(db, cur) : LexLeq(t, last.k)
     /\ last.op = "Last" =>
           last.ok /\ \A t \in Range(db, cur) : LexLeq(last.k, t)

C2_Witness ==
  /\ cur.Reverse /\ cur.NumKeys = 3 /\ cur.ls = 0
  /\ last.op = "Next" /\ ~last.ok /\ Len(hist) = 3
  /\ hist[1].k[1] # hist[3].k[1]

\* ========================================================= claims: Seek
\* the least (greatest when rev) key of a set of composite keys
LexFirst(S, rev) ==
  CHOOSE t \in S : \A u \in S : IF rev THEN LexLeq(u, t) ELSE LexLeq(t, u)

\* what Seek is to return: the first key of S in the cursor's order and its
\* payload, or null when S is empty
SeekReturns(S, rev) ==
  IF S = {} THEN ~last.ok
  ELSE /\ last.ok
       /\ last.k = LexFirst(S, rev)
       /\ last.v = PayloadOf(db, cur.Bucket, last.k)

\* C3: on a forward cursor without a pin, Seek(keys) returns the smallest key
\* of the index that is >= keys in tuple order, with its payload, and null
\* only when there is none, whatever the argument.
C3_ForwardSeekLeastAbove ==
  (last.op = "Seek" /\ Len(last.args) = cur.NumKeys /\ ~fault
     /\ ~cur.Reverse /\ cur.ls = 0) =>
     SeekReturns({t \in Entries(db, cur.Bucket) : LexLeq(last.args, t)}, FALSE)

\* C4: on a reverse cursor without a pin, Seek(keys) returns the greatest key
\* of the index that is <= keys in tuple order, with its payload, and null
\* only when there is none.
C4_ReverseSeekGreatestBelow ==
  (last.op = "Seek" /\ Len(last.args) = cur.NumKeys /\ ~fault
     /\ cur.Reverse /\ cur.ls = 0) =>
     SeekReturns({t \in Entries(db, cur.Bucket) : LexLeq(t, last.args)}, TRUE)

\* C5: Seek of a key k of the index returns k and its payload; on a forward
\* cursor the Next after it returns the strict successor of k, or null when
\* k is the greatest key.
C5_SeekExistingThenNext ==
  (last.op = "Seek" /\ last.args \in Range(db, cur)) =>
     /\ ~fault
     /\ last.ok /\ last.k = last.args
     /\ last.v = PayloadOf(db, cur.Bucket, last.args)
     /\ ~cur.Reverse =>
           LET r == Next_(db, cur)
               S == {t \in Range(db, cur) : LexLess(last.args, t)}
           IN /\ ~r.panic
              /\ IF S = {} THEN ~r.ok
                 ELSE /\ r.ok
                      /\ KsTuple(r.c) = LexFirst(S, FALSE)
                      /\ r.v = PayloadOf(db, cur.Bucket, KsTuple(r.c))

C5_Witness ==
  /\ last.op = "Seek" /\ last.args \in Entries(db, cur.Bucket) /\ last.ok
  /\ ~cur.Reverse /\ cur.ls = 0 /\ cur.NumKeys = 3
  /\ Next_(db, cur).ok
  /\ KsTuple(Next_(db, cur).c)[1] # last.k[1]

\* ============================================ claims: snapshot and pin
\* the results of every call the cursor can be given in a state
CallResults(st, c) ==
  {First(st, c), Last(st, c), Next_(st, c), Prev(st, c)}
    \cup {Seek(st, c, keys) : keys \in SeekArgs(c.NumKeys)}
    \cup {Skip(st, c, count) : count \in 0..MaxSkip}

\* C6: a call of Seek, Next, Prev, First, Last or Skip that returns null
\* leaves every position C[i] and every cached key K[i] as before the call.
C6_NullLeavesCursorUnchanged ==
  (cur.state = "ready" /\ ~fault) =>
     \A r \in CallResults(db, cur) :
        (~r.ok /\ ~r.panic /\ ~r.hang) =>
           (r.c.cursors = cur.cursors /\ r.c.ks = cur.ks)

\* the bucket of level i on the path of the pinned keys
RECURSIVE PinBucket(_, _, _)
PinBucket(st, c, i) ==
  IF i = 0 THEN c.Bucket ELSE st.bk[PinBucket(st, c, i - 1)][c.skip[i]]

\* where Init put the cursor of a pinned level
PinCursor(st, c, i) ==
  [nilp |-> FALSE, b |-> PinBucket(st, c, i), len |-> 1,
   idx |-> SearchIdx(st, PinBucket(st, c, i), c.skip[i + 1])]

\* C7: after Init pinned p keys, every non-null result of First, Last, Next,
\* Prev, Seek and Skip begins with the pinned keys, whatever calls came
\* before and whatever Seek was given, and the cursors of the pinned levels
\* stay where Init put them.
C7_PinHolds ==
  cur.state = "ready" =>
     /\ (last.op \in {"First", "Last", "Next", "Prev", "Seek", "Skip"} /\ last.ok) =>
           SubSeq(last.k, 1, cur.ls) = cur.skip
     /\ \A i \in 0..(cur.ls - 1) :
           cur.cursors[i] = PinCursor(db, cur, i) /\ cur.ks[i] = cur.skip[i + 1]

C7_Witness ==
  /\ cur.state = "ready" /\ cur.ls = 1 /\ cur.NumKeys = 3
  /\ last.op = "Seek" /\ last.ok /\ Len(last.args) = 3
  /\ last.args[1] # cur.skip[1]
  /\ Entries(db, cur.Bucket) \ Range(db, cur) # {}

\* =================================================== claims: the mutator
\* the keys stored in every bucket (the shape of the store, payloads aside)
StoredKeys(st) == [n \in DOMAIN st.bk |-> DOMAIN st.bk[n]]

\* C8: after a Put that succeeded, Get of the same composite key returns the
\* payload just put; a further Put of any payload on that key makes Get return
\* the new payload and adds no entry and no stored key.
C8_PutThenGet ==
  (last.op = "Put" /\ last.err = "none" /\ ~fault) =>
     /\ Get(db, last.bucket, last.keys) = GetRes(last.data, "none", FALSE)
     /\ \A d \in Payloads :
          LET r == Put(db, last.bucket, last.keys, d)
          IN /\ ~r.panic /\ r.err = "none"
             /\ Get(r.st, last.bucket, last.keys) = GetRes(d, "none", FALSE)
             /\ Entries(r.st, last.bucket) = Entries(db, last.bucket)
             /\ StoredKeys(r.st) = StoredKeys(db)

\* a Put has overwritten a different payload at depth >= 2
C8_Witness ==
  /\ last.op = "Put" /\ last.err = "none" /\ Len(last.keys) >= 2
  /\ last.old \in Payloads /\ last.old # last.data
  /\ Get(db, last.bucket, last.keys).val = last.data

\* C9: Del of a present key removes exactly that key: afterwards Get of it
\* fails with KeyNotFound and Get of every other key returns what it returned
\* before, also when several Put and Del run in one write transaction.
C9_DelRemovesExactlyItsKey ==
  /\ (last.op = "Del" /\ last.old # NoVal) =>
        (~fault /\ Get(db, last.bucket, last.keys) = GetRes(NoVal, "key not found", FALSE))
  /\ ~fault =>
       \A t \in Entries(db, db.ix) :
          LET r == Del(db, db.ix, t)
          IN \A t2 \in Entries(db, db.ix) \ {t} :
                ~r.panic /\ Get(r.st, db.ix, t2) = Get(db, db.ix, t2)

\* C10: at every transaction boundary every interior entry names a bucket
\* that exists and is not empty, and no bucket below the outer one is empty.
AtTxBoundary == last.op \in {"none", "Commit"}

InteriorHandles(st, bucket) ==
  {Get(st, bucket, p).val :
      p \in {q \in UNION {KeyTuples(n) : n \in 1..(DepthOf(bucket) - 1)} :
                HasPrefix(st, bucket, q)}}

NoOrphans(st, bucket) ==
  \A h \in InteriorHandles(st, bucket) : h \in DOMAIN st.bk /\ DOMAIN st.bk[h] # {}

NoEmptySubBucket(st) ==
  \A n \in DOMAIN st.bk : n \notin OuterBuckets => DOMAIN st.bk[n] # {}

C10_NoOrphanNoEmpty ==
  (AtTxBoundary /\ ~fault) => (NoOrphans(db, db.ix) /\ NoEmptySubBucket(db))

\* the handles rand.Uuid can have made for an interior prefix
PrefixHandles(prefix) == {HandleOf(prefix, g) : g \in 0..MaxGen}

\* the interior prefixes of a composite key
InteriorPrefixes(keys) == {SubSeq(keys, 1, i) : i \in 1..(Len(keys) - 1)}

\* C11: when Del has removed the last composite key under an interior prefix,
\* the interior entry of that prefix is gone from its parent bucket and no
\* handle made for the prefix is a bucket name or a stored value any more.
C11_DelPrunesEmptyPrefix ==
  (last.op = "Del" /\ last.old # NoVal /\ ~fault) =>
     \A p \in InteriorPrefixes(last.keys) :
        (\A t \in Entries(db, last.bucket) : SubSeq(t, 1, Len(p)) # p) =>
           /\ ~HasPrefix(db, last.bucket, p)
           /\ PrefixHandles(p) \cap UsedHandles(db) = {}

\* the records a new forward cursor without pin returns: First, then Next
\* until the null result (TestCursorNext)
RECURSIVE IterRest(_, _, _)
IterRest(st, r, n) ==
  IF r.panic \/ r.hang \/ ~r.ok \/ n = 0 THEN <<>>
  ELSE <<[k |-> KsTuple(r.c), v |-> r.v]>> \o
       Only({IterRest(st, x, n - 1) : x \in {Next_(st, r.c)}})

IterAll(st, bucket) ==
  Only({IF i.panic \/ i.err # "none" THEN <<>>
        ELSE Only({IterRest(st, x, MaxIndex + 1) : x \in {First(st, i.c)}})
        : i \in {Init_(st, NewCursor(BeginTx(FALSE), bucket, DepthOf(bucket), FALSE), <<>>)}})

IterKeySeq(st, bucket) ==
  Only({[i \in 1..Len(s) |-> s[i].k] : s \in {IterAll(st, bucket)}})

\* C12: in any state of the index, also inside a write transaction, Del of a
\* present key followed by Put of that key with a payload leaves an index in
\* which Get of the key returns the payload and a cursor run from First
\* returns the same sequence of keys as before the Del, the key with the
\* payload just put.
C12_DelThenPutRestores ==
  ~fault =>
    \A t \in Entries(db, db.ix) : \A d \in Payloads :
       \A r1 \in {Del(db, db.ix, t)} :
          /\ ~r1.panic /\ r1.err = "none"
          /\ CanPut(r1.st, db.ix, t) =>
               \A r2 \in {Put(r1.st, db.ix, t, d)} :
                  /\ ~r2.panic /\ r2.err = "none"
                  /\ Get(r2.st, db.ix, t) = GetRes(d, "none", FALSE)
                  /\ IterKeySeq(r2.st, db.ix) = IterKeySeq(db, db.ix)
                  /\ \A i \in 1..Len(IterAll(r2.st, db.ix)) :
                        IterAll(r2.st, db.ix)[i].k = t => IterAll(r2.st, db.ix)[i].v = d

\* C13: Put, Get and Del called with an empty key vector fail with the
\* MissingKeys error ("no keys"), in every state of the store.
C13_EmptyKeysFail ==
  /\ (last.op \in {"Put", "Del"} /\ last.keys = <<>>) =>
        (last.err = "no keys" /\ ~fault)
  /\ ~fault =>
        /\ Get(db, db.ix, <<>>) = GetRes(NoVal, "no keys", FALSE)
        /\ Del(db, db.ix, <<>>).err = "no keys" /\ ~Del(db, db.ix, <<>>).panic
        /\ \A d \in Payloads :
              Put(db, db.ix, <<>>, d).err = "no keys" /\ ~Put(db, db.ix, <<>>, d).panic

\* Del was called with no keys on a populated index and failed
C13_Witness ==
  /\ last.op = "Del" /\ last.keys = <<>> /\ last.err = "no keys" /\ ~fault
  /\ Entries(db, db.ix) # {}
  /\ Get(db, db.ix, <<>>).err = "no keys"

\* C14: Del of a composite key that is not in the index (an interior key or
\* the leaf key is missing, the outer bucket being there) fails with
\* KeyNotFound and leaves the store as it was.
C14_DelAbsentKeyNotFound ==
  /\ (last.op = "Del" /\ last.keys # <<>> /\ last.old = NoVal
         /\ last.bucket \in DOMAIN db.bk) =>
        (~fault /\ last.err = "key not found")
  /\ (~fault /\ db.ix \in DOMAIN db.bk) =>
        \A t \in KeyTuples(DepthOf(db.ix)) \ Entries(db, db.ix) :
           Del(db, db.ix, t) = MutRes(db, "key not found", FALSE)

\* C15: Get never faults: for every composite key it returns either the
\* payload or the KeyNotFound error, also when the outer bucket is absent or
\* a level of the path is missing.
C15_GetNeverFaults ==
  ~fault =>
    \A t \in KeyTuples(DepthOf(db.ix)) :
       \A g \in {Get(db, db.ix, t)} :
          /\ ~g.panic
          /\ g.err \in {"none", "key not found"}
          /\ g.err = "key not found" <=> g.val = NoVal

\* ======================================================== claims: Init
\* C16: Init with fewer keys than the depth fails with InvalidBucket when the
\* outer bucket does not exist and with KeyNotFound when the keys are not the
\* prefix of a stored composite key (a seek landing on a greater key is no
\* hit); otherwise it succeeds and the pin is exactly the keys given.
C16_InitOutcome ==
  (last.op = "Init" /\ Len(last.args) < cur.NumKeys) =>
     /\ ~fault
     /\ IF cur.Bucket \notin DOMAIN db.bk THEN last.err = "invalid bucket"
        ELSE IF \/ Len(last.args) = 0
                \/ \E t \in Entries(db, cur.Bucket) :
                      SubSeq(t, 1, Len(last.args)) = last.args
        THEN /\ last.err = "none"
             /\ cur.skip = last.args
             /\ cur.ls = Len(last.args)
        ELSE last.err = "key not found"

\* Init was given a first key below a stored one and not stored itself: the
\* seek landed on the greater key and Init failed
C16_Witness ==
  /\ last.op = "Init" /\ Len(last.args) = 1 /\ last.err = "key not found"
  /\ \E t \in Entries(db, cur.Bucket) : t[1] > last.args[1]
  /\ \A t \in Entries(db, cur.Bucket) : t[1] # last.args[1]

\* ======================================================== claims: Skip
\* the key at offset n of the set S in ascending (rev: descending) order
RECURSIVE OffsetKey(_, _, _)
OffsetKey(S, rev, n) ==
  IF n = 0 THEN LexFirst(S, rev)
  ELSE OffsetKey(S \ {LexFirst(S, rev)}, rev, n - 1)

\* C17: Skip(count) with count below the number of keys under the pin returns
\* the key at offset count of the oriented order of those keys, with its
\* payload, for every depth, orientation and pin.
C17_SkipReturnsOffset ==
  (last.op = "Skip" /\ last.args[1] < Cardinality(Range(db, cur))) =>
     /\ ~fault /\ ~last.hang
     /\ last.ok
     /\ last.k = OffsetKey(Range(db, cur), cur.Reverse, last.args[1])
     /\ last.v = PayloadOf(db, cur.Bucket, last.k)

\* ========================================================= claims: Err
\* C18: Err returns the error that was latched and clears the latch, so that
\* an Err right after it returns nil, and it changes nothing else of the
\* cursor (positions, keys, pin).
C18_ErrReturnsAndClears ==
  [][last'.op = "Err" =>
       /\ last'.err = cur.err
       /\ cur' = [cur EXCEPT !.err = "none"]
       /\ Err(cur').err = "none"
       /\ db' = db]_vars

\* Err has returned a latched error on a positioned cursor
C18_Witness ==
  /\ last.op = "Err" /\ last.err # "none"
  /\ cur.err = "none" /\ cur.ks[0] # NoKey

C20_CommitFinalizes ==
  [][(last'.op = "Commit" /\ ~cur.rollback) =>
       /\ last'.err = "none"
       /\ cur'.rollback
       /\ cur'.Tx.state = IF Writable(cur.Tx) THEN "committed" ELSE "rolledback"
       /\ cur' = [cur EXCEPT !.Tx.state = cur'.Tx.state, !.rollback = TRUE]]_vars

\* Commit has committed the writable transaction of a positioned cursor
C20_Witness ==
  /\ last.op = "Commit" /\ last.err = "none"
  /\ Writable(cur.Tx) /\ cur.Tx.state = "committed" /\ cur.rollback
  /\ cur.state = "ready" /\ cur.ks[0] # NoKey

\* C21: on a finalized cursor every Commit and every Rollback fails with
\* AlreadyFinalized and leaves the transaction and the cursor as they are;
\* no step of the cursor resets the finalized flag.
C21_FinalizedStays ==
  [][/\ (last'.op \in {"Commit", "Rollback"} /\ cur.rollback) =>
          (last'.err = "already rolled back/commited" /\ cur' = cur /\ db' = db)
      /\ (cur.rollback => cur'.rollback)]_vars

\* a Rollback after a Commit that succeeded was refused
C21_Witness ==
  /\ last.op = "Rollback" /\ last.err = "already rolled back/commited"
  /\ cur.rollback /\ cur.Tx.state = "committed"

\* C22: once Commit or Rollback has finalized the cursor, no First, Last,
\* Next, Prev, Seek or Skip returns a record: the calls made did not, and no
\* call that could be made next does.
C22_FinalizedUnusable ==
  cur.rollback =>
     /\ last.op \in {"First", "Next"} => ~last.ok
     /\ (~fault /\ cur.state = "ready") => \A r \in CallResults(db, cur) : ~r.ok

\* First was called on a finalized cursor over a populated index: the
\* transaction is closed and the call ended in a panic
C22_Witness ==
  /\ cur.rollback /\ last.op = "First" /\ ~last.ok /\ fault
  /\ Entries(db, cur.Bucket) # {}

\* ------------------------------------------------------ claims: the mutex
\* a call of thread t has started and has not returned
InProgress(t) == pc[t].at # "idle"

\* the vectors of the cursor that the operations read and write
Vectors(c) == <<c.cursors, c.cursorsSave, c.ks, c.ksSave>>

\* C23: every public operation, Init included, holds the cursor's mutex from
\* start to return, so that calls on one cursor serialize: while a call of one
\* thread is in progress, no step of another thread's call overwrites the
\* cursor vectors.
C23_CallsSerialize ==
  [][\A t \in Threads :
        (InProgress(t) /\ pc'[t] = pc[t]) => Vectors(cur') = Vectors(cur)]_vars

SeekMissingLeaf(l, c) ==
  l.op = "Seek" /\ l.args = <<2, 3>> /\ ~c.Reverse /\ c.ls = 0

\* C25 as stated: on the index of TestCursorSeek a forward unpinned
\* Seek(key2, key3) returns null and leaves the cursor at its pre-Seek state,
\* and a following First returns 11.
C25_SeekMissingLeafNull ==
  [][/\ SeekMissingLeaf(last', cur') =>
          (~last'.ok /\ Vectors(cur') = Vectors(cur))
     /\ (SeekMissingLeaf(last, cur) /\ last'.op = "First") =>
          (last'.ok /\ last'.k = <<1, 1>> /\ last'.v = PayloadFor(<<1, 1>>))]_vars

\* C25 as the code has it: on the index of TestCursorSeek a forward unpinned
\* Seek(key2, key3) backtracks to the next outer key and returns (key3, key1)
\* with payload 31, the cursor standing on that record; a following First
\* returns 11.
C25_SeekMissingLeafNext ==
  [][/\ SeekMissingLeaf(last', cur') =>
          /\ last'.ok /\ ~fault'
          /\ last'.k = <<3, 1>> /\ last'.v = PayloadFor(<<3, 1>>)
          /\ KsTuple(cur') = <<3, 1>>
     /\ (SeekMissingLeaf(last, cur) /\ last'.op = "First") =>
          (last'.ok /\ last'.k = <<1, 1>> /\ last'.v = PayloadFor(<<1, 1>>))]_vars

\* Seek(key2, key3) was called for a key the index does not hold and
\* returned payload 31, the record of (key3, key1)
C25_Witness ==
  /\ SeekMissingLeaf(last, cur) /\ last.ok /\ last.v = PayloadFor(<<3, 1>>)
  /\ Get(db, 2, <<2, 3>>).val = NoVal
  /\ Get(db, 2, <<3, 1>>).val = PayloadFor(<<3, 1>>)

\* ------------------------------------------------ claims: empty levels
\* the bucket of the first free level, on the path of the pin, holds no key
FreeLevelEmpty(st, c) ==
  c.state = "ready" /\ DOMAIN st.bk[PinBucket(st, c, c.ls)] = {}

\* C26: First and Last return a null result, without a fault and without a
\* latched error, when the first free level within the pin has no entries,
\* for every depth.
C26_EmptyLevelNull ==
  (last.op \in {"First", "Last"} /\ FreeLevelEmpty(db, cur)) =>
     (~fault /\ ~last.ok /\ cur.err = "none")

\* ------------------------------------------- claims: Seek past a level's end
\* the bucket of level i that a forward Seek for keys reaches from bucket b of
\* level j, taking at each level the least key not below the one asked for;
\* NoBucket when a level before i has no such key
RECURSIVE SeekBucket(_, _, _, _, _)
SeekBucket(st, b, keys, j, i) ==
  IF j = i THEN b
  ELSE LET ge == {k \in DOMAIN st.bk[b] : k >= keys[j + 1]}
       IN IF ge = {} THEN NoBucket
          ELSE SeekBucket(st, st.bk[b][CHOOSE k \in ge : \A k2 \in ge : k <= k2],
                          keys, j + 1, i)

\* the key of free level i is above every key of that level's bucket and above
\* the cached c.ks[i]
SeekPastEnd(st, c, keys, i) ==
  LET b == SeekBucket(st, PinBucket(st, c, c.ls), keys, c.ls, i)
  IN /\ b # NoBucket
     /\ \A k \in DOMAIN st.bk[b] : k < keys[i + 1]
     /\ keys[i + 1] > c.ks[i]

\* C27: on a forward cursor with a pin, a Seek whose key at a free level is
\* greater than every key of that level's bucket and greater than the cached
\* K[i] returns the greatest composite key within the pin, the result of
\* Last, and not null.
C27_SeekPastEndReturnsLast ==
  [][(/\ last'.op = "Seek" /\ ~fault /\ cur.state = "ready"
      /\ ~cur.Reverse /\ cur.ls > 0 /\ Len(last'.args) = cur.NumKeys
      /\ \E i \in cur.ls..(cur.NumKeys - 1) :
            SeekPastEnd(db, cur, PinKeys(cur, last'.args), i))
     => (/\ last'.ok /\ ~fault'
         /\ last'.k = LexFirst(Range(db, cur), TRUE)
         /\ last'.v = PayloadOf(db, cur.Bucket, last'.k)
         /\ last'.k = KsTuple(Last(db, cur).c) /\ last'.v = Last(db, cur).v)]_vars

\* a forward Seek under a pin asked for a leaf key above every key of the
\* pinned bucket and returned the greatest key of the pin
C27_Witness ==
  /\ last.op = "Seek" /\ last.ok /\ ~fault
  /\ ~cur.Reverse /\ cur.ls > 0 /\ Len(last.args) = cur.NumKeys
  /\ last.k = LexFirst(Range(db, cur), TRUE)
  /\ \A t \in Range(db, cur) : t[cur.NumKeys] < last.args[cur.NumKeys]
  /\ Cardinality(Range(db, cur)) > 1

\* the call recorded in l is a Seek on cursor c, without pin, whose first
\* component is above every key of the outer bucket
SeekAboveAll(st, c, l) ==
  /\ l.op = "Seek" /\ c.state = "ready" /\ c.ls = 0
  /\ Len(l.args) = c.NumKeys
  /\ \A k \in DOMAIN st.bk[c.Bucket] : k < l.args[1]

\* C28: on an unpinned cursor of either orientation, a Seek whose first
\* component is greater than every key of the outer bucket returns null, and
\* the next Seek for an existing key still returns that key.
C28_SeekAboveAllNull ==
  [][/\ (~fault /\ SeekAboveAll(db, cur, last')) => (~last'.ok /\ ~fault')
     /\ (/\ ~fault /\ SeekAboveAll(db, cur, last) /\ ~last.ok
         /\ last'.op = "Seek" /\ last'.args \in Entries(db, cur.Bucket))
        => (/\ last'.ok /\ ~fault' /\ last'.k = last'.args
            /\ last'.v = PayloadOf(db, cur.Bucket, last'.args))]_vars

\* ------------------------------------------------ claims: broken chains
\* Next on a forward cursor and Prev on a reverse one move towards greater keys
Ascends(c, op) == (op = "Next") = ~c.Reverse

\* the entry after the one bolt cursor cv is on, in the direction asc
Peek(st, cv, asc) == BoltMove(st, cv, IF asc THEN "Next" ELSE "Prev", NoKey)

\* the reset that starts in sub-bucket v for level i finds it missing or
\* empty, or finds that of the first entry it takes so
RECURSIVE ChainBroken(_, _, _, _, _)
ChainBroken(st, v, i, n, asc) ==
  \/ v \notin DOMAIN st.bk
  \/ DOMAIN st.bk[v] = {}
  \/ /\ i < n - 1
     /\ LET K == DOMAIN st.bk[v]
            k == IF asc THEN CHOOSE x \in K : \A y \in K : x <= y
                 ELSE CHOOSE x \in K : \A y \in K : x >= y
        IN ChainBroken(st, st.bk[v][k], i + 1, n, asc)

\* op, Next or Prev, is about to advance an interior level j, the deeper
\* levels being exhausted, to an entry whose chain is broken
BrokenAhead(st, c, op) ==
  /\ c.state = "ready"
  /\ \A i \in Levels(c) : ~c.cursors[i].nilp /\ c.cursors[i].b \in DOMAIN st.bk
  /\ \E j \in c.ls..(c.NumKeys - 2) :
        /\ \A i \in (j + 1)..(c.NumKeys - 1) :
              Peek(st, c.cursors[i], Ascends(c, op)).k = NoKey
        /\ Peek(st, c.cursors[j], Ascends(c, op)).k # NoKey
        /\ ChainBroken(st, Peek(st, c.cursors[j], Ascends(c, op)).v, j + 1,
                       c.NumKeys, Ascends(c, op))

\* C29: when Next or Prev advances an interior level and the reset of the
\* deeper levels meets an interior entry whose sub-bucket is empty or missing,
\* the operation returns a null result and latches a deferred error; it does
\* not fault and does not go on to another entry.
C29_BrokenChainLatched ==
  [][(~fault /\ last'.op \in {"Next", "Prev"} /\ BrokenAhead(db, cur, last'.op))
       => (~last'.ok /\ ~fault' /\ cur'.err # "none")]_vars

\* ------------------------------------------------ claims: orientation
\* C30: for every index and every sequence of First, Last, Next and Prev
\* calls, a cursor with Reverse = true returns exactly the results that a
\* forward cursor over the same index and pin returns for the sequence with
\* First and Last swapped and Next and Prev swapped.
C30_OrientationSymmetry ==
  last.op \in {"First", "Last", "Next", "Prev"} => last.mine = last.twin

\* the reverse cursor was moved by Next to a record of the index, and the
\* forward cursor by Prev to the same record
C30_Witness ==
  /\ last.op = "Next" /\ last.mine.ok /\ last.twin.ok /\ ~fault
  /\ cur.Reverse /\ ~twin.Reverse
  /\ last.mine.k \in Entries(db, cur.Bucket) /\ last.twin.k = last.mine.k
  /\ Cardinality(Range(db, cur)) > 1

\* ------------------------------------------------ claims: Seek's arity
\* C31: Seek called with a number of keys different from N returns a null
\* result, latches an error that the next Err() returns, and leaves the cursor
\* position unchanged.
C31_SeekWrongArity ==
  [][(/\ ~fault /\ cur.state = "ready"
      /\ last'.op = "Seek" /\ Len(last'.args) # cur.NumKeys)
     => (/\ ~last'.ok /\ ~fault'
         /\ cur'.err = "wrong number of keys" /\ Err(cur').err = cur'.err
         /\ cur'.cursors = cur.cursors /\ cur'.ks = cur.ks)]_vars

\* ------------------------------------------------ claims: Skip past the end
\* C32: Skip(count) with count greater than or equal to the number of entries
\* within the pin returns a null result and leaves the cursor state unchanged,
\* for every depth, with or without a pin and in both orientations; it never
\* returns an entry that was already counted.
C32_SkipPastEndNull ==
  [][(/\ ~fault /\ cur.state = "ready" /\ last'.op = "Skip"
      /\ last'.args[1] >= Cardinality(Range(db, cur)))
     => (/\ ~last'.ok /\ ~fault' /\ ~last'.hang
         /\ cur'.cursors = cur.cursors /\ cur'.ks = cur.ks)]_vars

\* C33: Skip(count) terminates for every count, every depth, every pin and
\* every index content, including an empty leaf or outer bucket: the counting
\* loop always either returns an entry or reaches the exit that returns null.
C33_SkipTerminates ==
  last.op = "Skip" => ~last.hang

\* ------------------------------------------------ claims: Next and Prev
\* from cursor c at key k with payload v: when Next returns a record, the
\* Prev that follows returns k and v
NextThenPrev(st, c, k, v) ==
  \A n \in {Next_(st, c)} :
     n.ok => \A p \in {Prev(st, n.c)} :
                p.ok /\ ~p.panic /\ KsTuple(p.c) = k /\ p.v = v

PrevThenNext(st, c, k, v) ==
  \A p \in {Prev(st, c)} :
     p.ok => \A n \in {Next_(st, p.c)} :
                n.ok /\ ~n.panic /\ KsTuple(n.c) = k /\ n.v = v

\* C34: Next and Prev are mutually inverse on a positioned cursor: at key k,
\* when Next returns k', an immediately following Prev returns k with k's
\* payload, and Prev followed by Next returns to k, also across a leaf-bucket
\* boundary.
C34_NextPrevInverse ==
  (/\ last.op \in {"First", "Last", "Next", "Prev", "Seek", "Skip"}
   /\ last.ok /\ ~fault)
  => /\ NextThenPrev(db, cur, last.k, last.v)
     /\ PrevThenNext(db, cur, last.k, last.v)

\* ------------------------------------------------ claims: results are entries
\* C35: every non-null result (K, payload) of First, Last, Next, Prev, Seek or
\* Skip, after any sequence of cursor operations including ones that returned
\* null, is an entry of the index: Get(bucket, K) returns the payload, and
\* K[i] is the key under the cursor of level i, for every level i.
C35_ResultIsEntry ==
  (/\ last.op \in {"First", "Last", "Next", "Prev", "Seek", "Skip"}
   /\ last.ok /\ ~fault)
  => /\ Get(db, cur.Bucket, last.k).err = "none"
     /\ Get(db, cur.Bucket, last.k).val = last.v
     /\ \A i \in Levels(cur) :
           /\ ~cur.cursors[i].nilp
           /\ KeyValue(db, cur.cursors[i]).k = last.k[i + 1]
\* ------------------------------------------------ claims: Put without keys
\* C36: a Put that fails with "no keys" because the key vector is empty leaves
\* the store unchanged; in particular it does not create the outer bucket when
\* that bucket did not exist.
C36_PutNoKeysKeepsStore ==
  [][(last'.op = "Put" /\ last'.keys = <<>> /\ last'.err = "no keys")
       => db' = db]_vars
\* ------------------------------------------------ claims: unpositioned cursor
\* C37: on a cursor that Init has just initialised and that First, Last, Seek
\* or Skip have not yet positioned, Next and Prev return a null result without
\* a fault (no use of an unset per-level cursor, in the move or in the restore
\* step), for every depth and every pin.
C37_UnpositionedNextPrevNull ==
  [][(/\ last.op = "Init" /\ last.err = "none" /\ ~fault
      /\ last'.op \in {"Next", "Prev"})
       => (~last'.ok /\ ~fault')]_vars

====
